---- MODULE Spec2Model ----
(***************************************************************************)
(* Model of the fartopia server script (src/index.ts and the earlier       *)
(* revision src/unnamed/part_000): the letter-by-letter playback scheduler *)
(* (handleFartSpeak / playAudioWithDuration) and the looping-sound         *)
(* controller (/fartstep, attachLoopingFartSound, onTickWithPlayerInput).  *)
(*                                                                         *)
(* Characters are UTF-16 code units (65 = 'A', 97 = 'a', 49 = '1').        *)
(* Time is counted in whole seconds: every pending setTimeout carries the  *)
(* seconds that remain, TimeStep lets one second pass, and a timer whose   *)
(* remaining time is 0 fires before more time passes.  One action is one   *)
(* macrotask of the event loop (a command handler, a tick callback, a      *)
(* timer callback) together with the promise continuations it runs before  *)
(* the next macrotask.                                                     *)
(***************************************************************************)
EXTENDS Integers, Sequences, FiniteSets, TLC

\* ---------------------------------------------------------------- bounds
MaxInvocations == 2      \* speak commands issued in one behaviour
MaxChars == 2            \* raw characters typed over all speak commands
MaxTokens == 2           \* argument tokens of one speak command
NumPlayers == 2          \* players that can connect
MaxAudios == 4           \* looping Audio objects created in one behaviour
MaxCode == 127           \* code units handed to playAudioWithDuration alone

\* the characters a player types: '1', 'K', 'a'
Chars == {49, 75, 97}

Players == 1..NumPlayers

VARIABLES
  build,                 \* the revision that runs: "index" or "part_000"
  invs,                  \* the handleFartSpeak invocations, in the order issued
  timers,                \* pending setTimeout callbacks, in the order set
  fartSound,             \* index into audios of the active loop, 0 for null
  audios,                \* every looping Audio created so far
  oneShots,              \* one-off fartE sounds started so far
  joined,                \* joined[p]: p is connected and its entity is spawned
  lastSpace,             \* the closure variable of p's tick callback
  spaceInterruptActive,  \* the closure variable of p's tick callback
  lastToggle             \* history: what the latest /fartstep did

vars == <<build, invs, timers, fartSound, audios, oneShots, joined,
          lastSpace, spaceInterruptActive, lastToggle>>

loopVars == <<fartSound, audios, oneShots, joined, lastSpace, spaceInterruptActive,
              lastToggle>>

\* ------------------------------------------------- letter duration table
FART_DURATIONS ==
  [c \in 65..90 |->
     CASE c = 65 -> 0  [] c = 66 -> 0  [] c = 67 -> 1  [] c = 68 -> 0
       [] c = 69 -> 0  [] c = 70 -> 0  [] c = 71 -> 1  [] c = 72 -> 1
       [] c = 73 -> 1  [] c = 74 -> 9  [] c = 75 -> 2  [] c = 76 -> 1
       [] c = 77 -> 1  [] c = 78 -> 1  [] c = 79 -> 1  [] c = 80 -> 0
       [] c = 81 -> 3  [] c = 82 -> 1  [] c = 83 -> 1  [] c = 84 -> 0
       [] c = 85 -> 1  [] c = 86 -> 3  [] c = 87 -> 1  [] c = 88 -> 3
       [] c = 89 -> 0  [] c = 90 -> 5]

\* const durationSec = FART_DURATIONS[letter] ?? 1
durationSec(letter) ==
  IF letter \in DOMAIN FART_DURATIONS THEN FART_DURATIONS[letter] ELSE 1

\* safeDuration without the floor of one second
safeDurationNoFloor(letter) == durationSec(letter)

\* const safeDuration = durationSec < 1 ? 1 : durationSec
safeDuration(letter) ==
  IF durationSec(letter) < 1 THEN 1 ELSE durationSec(letter)

\* the longest delay of the table; elapsed-time counters saturate here
DurCap == 9

\* ------------------------------------------------------ string functions
RECURSIVE join(_)
\* args.join('')
join(args) == IF args = <<>> THEN <<>> ELSE Head(args) \o join(Tail(args))

\* String.prototype.toUpperCase on one ASCII code unit: a-z map to A-Z,
\* every other ASCII character is unchanged
upperOf(c) == IF c >= 97 /\ c <= 122 THEN c - 32 ELSE c

toUpperCase(s) == [i \in 1..Len(s) |-> upperOf(s[i])]

\* c >= 'A' && c <= 'Z'
isLetter(c) == c >= 65 /\ c <= 90

\* fartString.split('').filter(c => c >= 'A' && c <= 'Z')
filterLetters(fartString) == SelectSeq(fartString, isLetter)

\* `audio/sfx/farts/fart${letter}.mp3`
soundUri(letter) ==
  [prefix |-> "audio/sfx/farts/fart", letter |-> letter, ext |-> ".mp3"]

\* --------------------------------------------------------- chat messages
usageText(cmd) ==
  [fmt |-> "Usage: $c <letters>. Example: $c SAM", cmd |-> cmd, letters |-> <<>>]

noValidText(cmd) ==
  [fmt |-> "No valid letters found. Example: $c SAM", cmd |-> cmd, letters |-> <<>>]

completeText(cmd, letters) ==
  [fmt |-> "$c sequence [$l] complete!", cmd |-> cmd, letters |-> letters]

\* ---------------------------------------------------------------- timers
\* a pacing timer that is one second short
paceTimerEarly(k, d) ==
  [kind |-> "pace", who |-> k, delay |-> d, rem |-> d - 1, cur |-> TRUE]

\* setTimeout(resolve, safeDuration * 1000) of invocation k
paceTimer(k, d) == [kind |-> "pace", who |-> k, delay |-> d, rem |-> d, cur |-> TRUE]

\* setTimeout(..., 1000) of player p's tick callback; cur: the closure that
\* set it is still the one p's ticks run
resumeTimer(p) == [kind |-> "resume", who |-> p, delay |-> 1, rem |-> 1, cur |-> TRUE]

RemoveAt(s, i) == [j \in 1..(Len(s) - 1) |-> IF j < i THEN s[j] ELSE s[j + 1]]

\* a timer fires when its delay has passed; timers of equal delay fire in
\* the order they were set
fireable(i) ==
  /\ timers[i].rem = 0
  /\ \A j \in 1..(i - 1) : ~(timers[j].rem = 0 /\ timers[j].delay = timers[i].delay)

resumeTimers == {i \in 1..Len(timers) : timers[i].kind = "resume"}

\* ------------------------------------------------------------- scheduler
\* the speak commands each revision registers, with the volume factor in
\* tenths
speakCommands ==
  IF build = "index"
    THEN {[name |-> "/fartspeak", vol |-> 10]}
    ELSE {[name |-> "/fartspeak", vol |-> 10],
          [name |-> "/fartloud", vol |-> 20],
          [name |-> "/fartwhisper", vol |-> 3]}

\* how a letter can fail to start: new Audio / play throws ("throw"), or,
\* in part_000, existsSync finds no file ("missing")
failures ==
  IF build = "index" THEN {"throw"} ELSE {"throw", "missing"}

logEntry(kind, letter, vol, delay, gap) ==
  [kind |-> kind, letter |-> letter, uri |-> soundUri(letter), vol |-> vol,
   delay |-> delay, gap |-> gap]

\* playAudioWithDuration that resolves without waiting for its timer
playAudioNoWait(inv, k, i, throws) ==
  LET letter == inv.letters[i]
  IN IF throws
       THEN [inv |-> [inv EXCEPT !.idx = i,
                        !.trace = Append(@, logEntry("throw", letter, inv.vol, 0, -1))],
             arm |-> <<>>, resolved |-> TRUE]
       ELSE [inv |-> [inv EXCEPT !.idx = i, !.since = 0,
                        !.trace = Append(@, logEntry("play", letter, inv.vol,
                                     safeDuration(letter),
                                     IF \E j \in 1..Len(inv.trace) : inv.trace[j].kind = "play"
                                       THEN inv.since ELSE -1))],
             arm |-> <<paceTimer(k, safeDuration(letter))>>, resolved |-> TRUE]

\* playAudioWithDuration whose catch block logs but never resolves
playAudioNoResolve(inv, k, i, throws) ==
  LET letter == inv.letters[i]
  IN IF throws
       THEN [inv |-> [inv EXCEPT !.idx = i,
                        !.trace = Append(@, logEntry("throw", letter, inv.vol, 0, -1))],
             arm |-> <<>>, resolved |-> FALSE]
       ELSE [inv |-> [inv EXCEPT !.idx = i, !.since = 0,
                        !.trace = Append(@, logEntry("play", letter, inv.vol,
                                     safeDuration(letter),
                                     IF \E j \in 1..Len(inv.trace) : inv.trace[j].kind = "play"
                                       THEN inv.since ELSE -1))],
             arm |-> <<paceTimer(k, safeDuration(letter))>>, resolved |-> FALSE]

\* playAudioWithDuration for letter i of invocation k.  If new Audio / play
\* throws, the error is logged and the promise is resolved at once;
\* otherwise the sound is started, the line is logged and the timer is set.
\* gap: the seconds since the previous start of this invocation (-1: none).
playAudioWithDuration(inv, k, i, throws) ==
  LET letter == inv.letters[i]
  IN IF throws
       THEN [inv |-> [inv EXCEPT !.idx = i,
                        !.trace = Append(@, logEntry("throw", letter, inv.vol, 0, -1))],
             arm |-> <<>>, resolved |-> TRUE]
       ELSE [inv |-> [inv EXCEPT !.idx = i, !.since = 0,
                        !.trace = Append(@, logEntry("play", letter, inv.vol,
                                     safeDuration(letter),
                                     IF \E j \in 1..Len(inv.trace) : inv.trace[j].kind = "play"
                                       THEN inv.since ELSE -1))],
             arm |-> <<paceTimer(k, safeDuration(letter))>>, resolved |-> FALSE]

\* the existsSync branch of part_000: console.error(...); continue
skipLetter(inv, i) ==
  [inv EXCEPT !.idx = i,
              !.trace = Append(@, logEntry("missing", inv.letters[i], inv.vol, 0, -1))]

\* the message after the loop
finish(inv) ==
  [inv EXCEPT !.idx = Len(inv.letters) + 1, !.done = TRUE,
              !.msgs = Append(@, completeText(inv.cmd, inv.letters))]

RECURSIVE runLoop(_, _, _, _)
\* the for-loop of handleFartSpeak from letter i on, up to the next await
\* that really suspends (a started sound) or the end of the function;
\* outs lists what happens at the letters that do not start
runLoop(inv, k, i, outs) ==
  IF i > Len(inv.letters) THEN [inv |-> finish(inv), arm |-> <<>>]
  ELSE IF outs # <<>> /\ Head(outs) = "missing"
    THEN runLoop(skipLetter(inv, i), k, i + 1, Tail(outs))
  ELSE LET r == playAudioWithDuration(inv, k, i, outs # <<>>)
       IN IF r.resolved THEN runLoop(r.inv, k, i + 1, Tail(outs))
          ELSE [inv |-> r.inv, arm |-> r.arm]

\* raw: args.join(''), the characters typed after the command name
newInvocation(cmd, raw, letters) ==
  [cmd |-> cmd.name, vol |-> cmd.vol, raw |-> raw, letters |-> letters,
   idx |-> 0, since |-> 0, trace |-> <<>>, msgs |-> <<>>, done |-> FALSE]

\* handleFartSpeak without the test for an empty string
handleFartSpeakNoUsage(k, cmd, args, outs) ==
  LET fartString == toUpperCase(join(args))
      letters == filterLetters(fartString)
  IN IF Len(letters) = 0
       THEN [inv |-> [newInvocation(cmd, join(args), letters) EXCEPT
                        !.done = TRUE, !.msgs = <<noValidText(cmd.name)>>],
             arm |-> <<>>]
     ELSE runLoop(newInvocation(cmd, join(args), letters), k, 1, outs)

\* handleFartSpeak up to its first suspension, as invocation k
handleFartSpeak(k, cmd, args, outs) ==
  LET fartString == toUpperCase(join(args))
      letters == filterLetters(fartString)
  IN IF fartString = <<>>
       THEN [inv |-> [newInvocation(cmd, join(args), <<>>) EXCEPT
                        !.done = TRUE, !.msgs = <<usageText(cmd.name)>>],
             arm |-> <<>>]
     ELSE IF Len(letters) = 0
       THEN [inv |-> [newInvocation(cmd, join(args), letters) EXCEPT
                        !.done = TRUE, !.msgs = <<noValidText(cmd.name)>>],
             arm |-> <<>>]
     ELSE runLoop(newInvocation(cmd, join(args), letters), k, 1, outs)

\* ------------------------------------------------------------ input sets
Strings(n) == UNION {[1..k -> Chars] : k \in 0..n}

RECURSIVE SumLen(_)
SumLen(args) == IF args = <<>> THEN 0 ELSE Len(Head(args)) + SumLen(Tail(args))

RECURSIVE TokenLists(_, _)
\* the lists of exactly k tokens with at most n characters in all
TokenLists(k, n) ==
  IF k = 0 THEN {<<>>}
  ELSE UNION {{<<t>> \o rest : rest \in TokenLists(k - 1, n - Len(t))} : t \in Strings(n)}

\* argument lists of at most MaxTokens tokens and n characters in all
ArgLists(n) == UNION {TokenLists(k, n) : k \in 0..MaxTokens}

RECURSIVE typed(_)
\* raw characters typed so far over all speak commands
typed(is) == IF is = <<>> THEN 0 ELSE Len(Head(is).raw) + typed(Tail(is))

\* the failures of at most n consecutive letters
Outs(n) == UNION {[1..k -> failures] : k \in 0..n}

\* ------------------------------------------------------ scheduler actions
\* a player issues /fartspeak, /fartloud or /fartwhisper
Speak ==
  /\ Len(invs) < MaxInvocations
  /\ \E cmd \in speakCommands, args \in ArgLists(MaxChars - typed(invs)) :
       \E outs \in Outs(SumLen(args)) :
         LET r == handleFartSpeak(Len(invs) + 1, cmd, args, outs)
         IN /\ invs' = Append(invs, r.inv)
            /\ timers' = timers \o r.arm
  /\ UNCHANGED <<build, loopVars>>

\* playAudioWithDuration called on its own for letter 1 of an invocation
\* that has not started yet
PlayAudio ==
  /\ \E k \in 1..Len(invs) :
       /\ invs[k].idx = 0 /\ ~invs[k].done
       /\ \E outs \in Outs(Len(invs[k].letters)) :
            LET r == runLoop(invs[k], k, 1, outs)
            IN /\ invs' = [invs EXCEPT ![k] = r.inv]
               /\ timers' = timers \o r.arm
  /\ UNCHANGED <<build, loopVars>>

\* the setTimeout callback of playAudioWithDuration: resolve(), and the
\* loop of handleFartSpeak goes on with the next letter
PacingTimeout ==
  /\ \E t \in 1..Len(timers) :
       /\ timers[t].kind = "pace" /\ fireable(t)
       /\ LET k == timers[t].who
          IN \E outs \in Outs(Len(invs[k].letters) - invs[k].idx) :
               LET r == runLoop(invs[k], k, invs[k].idx + 1, outs)
               IN /\ invs' = [invs EXCEPT ![k] = r.inv]
                  /\ timers' = RemoveAt(timers, t) \o r.arm
  /\ UNCHANGED <<build, loopVars>>

\* one second passes
TimeStep ==
  /\ timers # <<>>
  /\ \A t \in 1..Len(timers) : timers[t].rem > 0
  /\ timers' = [t \in 1..Len(timers) |-> [timers[t] EXCEPT !.rem = @ - 1]]
  /\ invs' = [k \in 1..Len(invs) |->
                [invs[k] EXCEPT
                   !.since = IF invs[k].done \/ @ >= DurCap THEN @ ELSE @ + 1]]
  /\ UNCHANGED <<build, loopVars>>

\* ------------------------------------------------------------ controller
\* a new Audio({loop: true, attachedToEntity}) after play(world)
loopAudio(p) == [playing |-> TRUE, rate |-> 10, owner |-> p]

\* a pause() that leaves the Audio playing
pauseNothing(as, i) == as

\* fartSound.pause() on an Audio whose only reference, fartSound, is
\* overwritten next: what is left of the object is that it once existed
pause(as, i) == [as EXCEPT ![i] = [playing |-> FALSE, rate |-> 0, owner |-> 0]]

\* attachLoopingFartSound that does not pause the sound it replaces
attachNoPause(p) ==
  IF ~joined[p]
    THEN [fartSound |-> fartSound, audios |-> audios]
    ELSE [fartSound |-> Len(audios) + 1, audios |-> Append(audios, loopAudio(p))]

\* attachLoopingFartSound without the check for a player entity
attachNoEntityCheck(p) ==
  [fartSound |-> Len(audios) + 1,
   audios |-> Append(IF fartSound # 0 THEN pause(audios, fartSound) ELSE audios,
                     loopAudio(p))]

\* attachLoopingFartSound(world, player): the new values of fartSound and
\* audios
attachLoopingFartSound(p) ==
  IF ~joined[p]
    THEN [fartSound |-> fartSound, audios |-> audios]
    ELSE [fartSound |-> Len(audios) + 1,
          audios |-> Append(IF fartSound # 0 THEN pause(audios, fartSound) ELSE audios,
                            loopAudio(p))]

\* Audio objects still to be created by pending resume callbacks are
\* counted against MaxAudios
canCreate == Len(audios) + Cardinality(resumeTimers) < MaxAudios

\* the controller state of section 4.3
ctlState ==
  IF fartSound # 0 THEN "Looping"
  ELSE IF resumeTimers # {} THEN "Interrupted"
  ELSE "Off"

\* world.onPlayerJoin
onPlayerJoin(p) ==
  /\ ~joined[p]
  /\ joined' = [joined EXCEPT ![p] = TRUE]
  /\ lastSpace' = [lastSpace EXCEPT ![p] = FALSE]
  /\ spaceInterruptActive' = [spaceInterruptActive EXCEPT ![p] = FALSE]
  /\ timers' = [t \in 1..Len(timers) |->
                  IF timers[t].kind = "resume" /\ timers[t].who = p
                    THEN [timers[t] EXCEPT !.cur = FALSE] ELSE timers[t]]
  /\ UNCHANGED <<build, invs, fartSound, audios, oneShots, lastToggle>>

\* world.onPlayerLeave
onPlayerLeave(p) ==
  /\ joined[p]
  /\ joined' = [joined EXCEPT ![p] = FALSE]
  /\ UNCHANGED <<build, invs, timers, fartSound, audios, oneShots,
                 lastSpace, spaceInterruptActive, lastToggle>>

\* the history record of a /fartstep of player p: did = "off" with the
\* owner of the loop it paused, "on" with the owner of the loop it created,
\* "noop" when attachLoopingFartSound returned without creating one
toggleRecord(p) ==
  IF fartSound # 0
    THEN [by |-> p, did |-> "off", owner |-> audios[fartSound].owner]
    ELSE IF attachLoopingFartSound(p).fartSound # 0
      THEN [by |-> p, did |-> "on", owner |-> p]
      ELSE [by |-> p, did |-> "noop", owner |-> 0]

\* a /fartstep that switches off only the loop of the player who typed it
\* and otherwise starts one for that player
fartstepOwnLoop(p) ==
  /\ IF fartSound # 0 /\ audios[fartSound].owner = p
       THEN /\ audios' = pause(audios, fartSound)
            /\ fartSound' = 0
       ELSE /\ joined[p] => canCreate
            /\ fartSound' = attachLoopingFartSound(p).fartSound
            /\ audios' = attachLoopingFartSound(p).audios
  /\ lastToggle' = toggleRecord(p)
  /\ UNCHANGED <<build, invs, timers, oneShots, joined, lastSpace,
                 spaceInterruptActive>>

\* the callback registered for /fartstep, called with any player
fartstepCommand(p) ==
  /\ IF fartSound # 0
       THEN /\ audios' = pause(audios, fartSound)
            /\ fartSound' = 0
       ELSE /\ joined[p] => canCreate
            /\ fartSound' = attachLoopingFartSound(p).fartSound
            /\ audios' = attachLoopingFartSound(p).audios
  /\ lastToggle' = toggleRecord(p)
  /\ UNCHANGED <<build, invs, timers, oneShots, joined, lastSpace,
                 spaceInterruptActive>>

\* /fartstep typed by a connected player
fartstep(p) == joined[p] /\ fartstepCommand(p)

\* an interrupt condition that tests the key, not its rising edge
interruptsWhileHeld(p, sp) ==
  fartSound # 0 /\ sp /\ ~spaceInterruptActive[p]

\* the condition of the space-bar interrupt
interrupts(p, sp) ==
  fartSound # 0 /\ sp /\ ~lastSpace[p] /\ ~spaceInterruptActive[p]

\* a tick that speeds the loop up and never slows it down again
setPlaybackRateFastOnly(sh) ==
  IF fartSound # 0 /\ sh
    THEN [audios EXCEPT ![fartSound].rate = 25]
    ELSE audios

\* if (fartSound) fartSound.setPlaybackRate(input.sh ? 2.5 : 1.0), in
\* tenths: the new value of audios
setPlaybackRate(sh) ==
  IF fartSound # 0
    THEN [audios EXCEPT ![fartSound].rate = IF sh THEN 25 ELSE 10]
    ELSE audios

\* playerEntity.controller.onTickWithPlayerInput of player p with
\* input.sh = sh and input.sp = sp
onTickWithPlayerInput(p, sh, sp) ==
  /\ joined[p]
  /\ LET rated == setPlaybackRate(sh)
     IN IF interrupts(p, sp)
          THEN /\ canCreate
               /\ spaceInterruptActive' = [spaceInterruptActive EXCEPT ![p] = TRUE]
               /\ audios' = pause(rated, fartSound)
               /\ fartSound' = 0
               /\ oneShots' = oneShots + 1
               /\ timers' = Append(timers, resumeTimer(p))
          ELSE /\ audios' = rated
               /\ UNCHANGED <<spaceInterruptActive, fartSound, oneShots, timers>>
  /\ lastSpace' = [lastSpace EXCEPT ![p] = sp]
  /\ UNCHANGED <<build, invs, joined, lastToggle>>

\* a resume callback that discards the oldest pending timer, whatever set
\* it, instead of its own
ResumeDropsOldest ==
  /\ \E t \in 1..Len(timers) :
       /\ timers[t].kind = "resume" /\ fireable(t)
       /\ fartSound' = attachLoopingFartSound(timers[t].who).fartSound
       /\ audios' = attachLoopingFartSound(timers[t].who).audios
       /\ spaceInterruptActive' =
            IF timers[t].cur
              THEN [spaceInterruptActive EXCEPT ![timers[t].who] = FALSE]
              ELSE spaceInterruptActive
       /\ timers' = Tail(timers)
  /\ UNCHANGED <<build, invs, oneShots, joined, lastSpace, lastToggle>>

\* a resume callback that leaves spaceInterruptActive set
ResumeNoClear ==
  /\ \E t \in 1..Len(timers) :
       /\ timers[t].kind = "resume" /\ fireable(t)
       /\ fartSound' = attachLoopingFartSound(timers[t].who).fartSound
       /\ audios' = attachLoopingFartSound(timers[t].who).audios
       /\ timers' = RemoveAt(timers, t)
  /\ UNCHANGED <<build, invs, oneShots, joined, lastSpace, lastToggle,
                 spaceInterruptActive>>

\* the setTimeout callback of the interrupt
ResumeTimeout ==
  /\ \E t \in 1..Len(timers) :
       /\ timers[t].kind = "resume" /\ fireable(t)
       /\ fartSound' = attachLoopingFartSound(timers[t].who).fartSound
       /\ audios' = attachLoopingFartSound(timers[t].who).audios
       /\ spaceInterruptActive' =
            IF timers[t].cur
              THEN [spaceInterruptActive EXCEPT ![timers[t].who] = FALSE]
              ELSE spaceInterruptActive
       /\ timers' = RemoveAt(timers, t)
  /\ UNCHANGED <<build, invs, oneShots, joined, lastSpace, lastToggle>>

Join == \E p \in Players : onPlayerJoin(p)

Leave == \E p \in Players : onPlayerLeave(p)

FartStep == \E p \in Players : fartstep(p)

\* the /fartstep callback called with a player that has no entity
FartStepNoEntity == \E p \in Players : ~joined[p] /\ fartstepCommand(p)

Tick == \E p \in Players, sh \in BOOLEAN, sp \in BOOLEAN : onTickWithPlayerInput(p, sh, sp)

\* -------------------------------------------------------- specifications
InitLoop ==
  /\ fartSound = 0
  /\ audios = <<>>
  /\ oneShots = 0
  /\ joined = [p \in Players |-> FALSE]
  /\ lastSpace = [p \in Players |-> FALSE]
  /\ spaceInterruptActive = [p \in Players |-> FALSE]
  /\ lastToggle = [by |-> 0, did |-> "none", owner |-> 0]

\* the scheduler of either revision
InitSpeak ==
  /\ build \in {"index", "part_000"}
  /\ invs = <<>>
  /\ timers = <<>>
  /\ InitLoop

NextSpeak == Speak \/ PacingTimeout \/ TimeStep

SpecSpeak == InitSpeak /\ [][NextSpeak]_vars

\* the event loop runs every timer callback that is due, and time passes
SpecSpeakFair ==
  InitSpeak /\ [][NextSpeak]_vars /\ WF_vars(PacingTimeout) /\ WF_vars(TimeStep)

\* playAudioWithDuration applied to any code unit
InitDuration ==
  /\ build \in {"index", "part_000"}
  /\ \E c \in 0..MaxCode :
       invs = <<newInvocation([name |-> "/fartspeak", vol |-> 10], <<c>>, <<c>>)>>
  /\ timers = <<>>
  /\ InitLoop

NextDuration == PlayAudio \/ PacingTimeout \/ TimeStep

SpecDuration == InitDuration /\ [][NextDuration]_vars

\* the looping-sound controller of index.ts
InitCtl ==
  /\ build = "index"
  /\ invs = <<>>
  /\ timers = <<>>
  /\ InitLoop

NextCtl == Join \/ Leave \/ FartStep \/ Tick \/ ResumeTimeout \/ TimeStep

SpecCtl == InitCtl /\ [][NextCtl]_vars

\* the controller when the /fartstep callback can be handed any player
NextCtlAny == NextCtl \/ FartStepNoEntity

SpecCtlAny == InitCtl /\ [][NextCtlAny]_vars

\* the whole of index.ts once the first player has joined: a speak
\* sequence and the controller of that player on one event loop
InitBoth ==
  /\ build = "index"
  /\ invs = <<>>
  /\ timers = <<>>
  /\ fartSound = 0
  /\ audios = <<>>
  /\ oneShots = 0
  /\ joined = [p \in Players |-> p = 1]
  /\ lastSpace = [p \in Players |-> FALSE]
  /\ spaceInterruptActive = [p \in Players |-> FALSE]
  /\ lastToggle = [by |-> 0, did |-> "none", owner |-> 0]

\* the first speak command of the behaviour
SpeakFirst == invs = <<>> /\ Speak

NextBoth ==
  SpeakFirst \/ PacingTimeout \/ FartStep \/ Tick \/ ResumeTimeout \/ TimeStep

SpecBoth == InitBoth /\ [][NextBoth]_vars

\* ------------------------------------------------ controller properties
liveLoops == {i \in 1..Len(audios) : audios[i].playing}

\* C1: in every reachable state at most one looping Audio is playing, and
\* a playing one is the one fartSound refers to
C1_AtMostOneLiveLoop ==
  /\ Cardinality(liveLoops) <= 1
  /\ \A i \in liveLoops : fartSound = i

\* a loop was re-created after an interrupt while an earlier loop object
\* exists and is paused
C1_Witness ==
  /\ Len(audios) >= 2
  /\ oneShots >= 1
  /\ fartSound = Len(audios)
  /\ audios[fartSound].playing
  /\ ~audios[1].playing

\* C2: /fartstep takes Off to Looping (a loop is created and playing) and
\* takes Looping and Interrupted to Off (no loop referenced, none playing)
C2_ToggleTable ==
  [][\A p \in Players :
       fartstep(p) =>
         /\ ctlState = "Off" => (fartSound' # 0 /\ audios'[fartSound'].playing)
         /\ ctlState \in {"Looping", "Interrupted"} =>
              (fartSound' = 0 /\ \A i \in 1..Len(audios') : ~audios'[i].playing)]_vars

pausedCount(as) == Cardinality({i \in 1..Len(as) : ~as[i].playing})

\* C3: a tick with a rising edge of space while Looping and with no
\* interrupt pending pauses one loop, starts one one-shot and schedules one
\* resume one second ahead; a tick with a rising edge while a resume is
\* still pending pauses nothing, starts no one-shot and schedules nothing
C3_OneInterruptPerEdge ==
  [][\A p \in Players, sh \in BOOLEAN, sp \in BOOLEAN :
       (onTickWithPlayerInput(p, sh, sp) /\ sp /\ ~lastSpace[p]) =>
         /\ (ctlState = "Looping" /\ resumeTimers = {}) =>
              /\ pausedCount(audios') = pausedCount(audios) + 1
              /\ oneShots' = oneShots + 1
              /\ timers' = Append(timers, resumeTimer(p))
         /\ resumeTimers # {} =>
              /\ pausedCount(audios') = pausedCount(audios)
              /\ oneShots' = oneShots
              /\ timers' = timers]_vars

\* ------------------------------------------------- scheduler properties
plays(inv) == SelectSeq(inv.trace, LAMBDA e : e.kind = "play")

lettersOf(tr) == [i \in 1..Len(tr) |-> tr[i].letter]

\* the typed characters in order, with a-z replaced by A-Z and everything
\* outside A-Z dropped
RECURSIVE Normalized(_)
Normalized(raw) ==
  IF raw = <<>> THEN <<>>
  ELSE LET c == Head(raw)
           rest == Normalized(Tail(raw))
       IN IF c \in 65..90 THEN <<c>> \o rest
          ELSE IF c \in 97..122 THEN <<c - 32>> \o rest
          ELSE rest

\* C4: when an invocation has finished, the letters whose playback was
\* started are exactly the normalized input, in order, duplicates kept
C4_PlayedIsNormalizedInput ==
  \A k \in 1..Len(invs) :
    invs[k].done => lettersOf(plays(invs[k])) = Normalized(invs[k].raw)

\* the delay the table prescribes for a letter
Pacing(c) ==
  LET t == IF c \in 65..90 THEN FART_DURATIONS[c] ELSE 1
  IN IF t > 1 THEN t ELSE 1

paceTimersOf(k) ==
  {t \in 1..Len(timers) : timers[t].kind = "pace" /\ timers[t].who = k}

\* C5: within one invocation the letters are reached in input order, each
\* start comes at least max(1, duration) seconds after the previous start,
\* and at most one pacing timer of the invocation is pending
C5_PacedInOrder ==
  \A k \in 1..Len(invs) :
    LET inv == invs[k]
        ps == plays(inv)
    IN /\ \A i \in 1..Len(inv.trace) : inv.trace[i].letter = inv.letters[i]
       /\ \A j \in 2..Len(ps) : ps[j].gap >= Pacing(ps[j - 1].letter)
       /\ Cardinality(paceTimersOf(k)) <= 1
       /\ \A t \in paceTimersOf(k) :
            /\ ps # <<>>
            /\ timers[t].rem + inv.since >= Pacing(ps[Len(ps)].letter)

\* 'K' (2 seconds) then 'A' started exactly two seconds later
C5_Witness ==
  \E k \in 1..Len(invs) :
    LET ps == plays(invs[k])
    IN /\ Len(ps) >= 2
       /\ ps[1].letter = 75
       /\ ps[2].letter = 65
       /\ ps[2].gap = 2

hasLetter(raw) == \E j \in 1..Len(raw) : raw[j] \in (65..90) \cup (97..122)

\* C6: empty raw input gives no playback and the single usage message;
\* non-empty input without a letter gives no playback and the single
\* no-valid-letters message; the texts differ and none is the completion
C6_HintMessages ==
  \A k \in 1..Len(invs) :
    LET inv == invs[k]
    IN /\ inv.raw = <<>> =>
            /\ inv.trace = <<>> /\ paceTimersOf(k) = {}
            /\ Len(inv.msgs) = 1
            /\ inv.msgs[1].fmt = "Usage: $c <letters>. Example: $c SAM"
            /\ inv.msgs[1].cmd = inv.cmd
       /\ (inv.raw # <<>> /\ ~hasLetter(inv.raw)) =>
            /\ inv.trace = <<>> /\ paceTimersOf(k) = {}
            /\ Len(inv.msgs) = 1
            /\ inv.msgs[1].fmt = "No valid letters found. Example: $c SAM"
            /\ inv.msgs[1].cmd = inv.cmd
       /\ usageText(inv.cmd) # noValidText(inv.cmd)

\* one invocation answered with the usage text, another with the
\* no-valid-letters text
C6_Witness ==
  \E k1, k2 \in 1..Len(invs) :
    /\ invs[k1].raw = <<>>
    /\ invs[k1].msgs = <<usageText(invs[k1].cmd)>>
    /\ invs[k2].raw = <<49>>
    /\ invs[k2].msgs = <<noValidText(invs[k2].cmd)>>

isComplete(m) == m.fmt = "$c sequence [$l] complete!"

completions(inv) == SelectSeq(inv.msgs, isComplete)

\* the completion message is there only when the loop is over, no pacing
\* timer is left and the delay of the last started letter has passed
C7_OnlyAfterLastDelay ==
  \A k \in 1..Len(invs) :
    LET inv == invs[k]
        ps == plays(inv)
    IN /\ Len(completions(inv)) <= 1
       /\ completions(inv) # <<>> =>
            /\ inv.done
            /\ Len(inv.trace) = Len(inv.letters)
            /\ paceTimersOf(k) = {}
            /\ ps # <<>> => inv.since >= Pacing(ps[Len(ps)].letter)

\* C7: an invocation with a valid letter eventually shows exactly one
\* completion message, and the message never appears before the pacing
\* delay of the last started letter is over
C7_CompletesOnce ==
  /\ []C7_OnlyAfterLastDelay
  /\ \A k \in 1..MaxInvocations :
       (Len(invs) >= k /\ hasLetter(invs[k].raw))
         ~> (Len(invs) >= k /\ Len(completions(invs[k])) = 1)

\* "aK" has been played through and completed two seconds after 'K'
C7_Witness ==
  \E k \in 1..Len(invs) :
    /\ lettersOf(plays(invs[k])) = <<65, 75>>
    /\ Len(completions(invs[k])) = 1
    /\ invs[k].since = 2

\* C8: the completion message names exactly the letters whose playback was
\* started, in order
C8_CompletionNamesPlayed ==
  \A k \in 1..Len(invs) :
    \A m \in 1..Len(invs[k].msgs) :
      isComplete(invs[k].msgs[m]) =>
        invs[k].msgs[m].letters = lettersOf(plays(invs[k]))

\* C9: a letter whose start throws is logged and arms no timer, the loop
\* goes on with the next letter at once, every letter is reached in order
\* (in index.ts every one is started or throws), and the completion
\* message is emitted
C9_ThrowDoesNotAbort ==
  \A k \in 1..Len(invs) :
    LET inv == invs[k]
        n == Len(inv.trace)
    IN /\ \A i \in 1..n : inv.trace[i].letter = inv.letters[i]
       /\ (n > 0 /\ inv.trace[n].kind # "play") =>
            /\ inv.done
            /\ n = Len(inv.letters)
            /\ paceTimersOf(k) = {}
       /\ (inv.done /\ inv.letters # <<>>) =>
            /\ n = Len(inv.letters)
            /\ inv.msgs = <<completeText(inv.cmd, inv.letters)>>
       /\ build = "index" =>
            \A i \in 1..n : inv.trace[i].kind \in {"play", "throw"}

\* in index.ts the first letter threw, the second was started and the
\* sequence completed
C9_Witness ==
  /\ build = "index"
  /\ \E k \in 1..Len(invs) :
       /\ Len(invs[k].trace) = 2
       /\ invs[k].trace[1].kind = "throw"
       /\ invs[k].trace[2].kind = "play"
       /\ Len(completions(invs[k])) = 1

\* C10: the delay logged and armed for a started letter is the table value
\* raised to at least 1, and 1 for a letter the table does not have
C10_EffectiveDuration ==
  \A k \in 1..Len(invs) :
    LET inv == invs[k]
    IN /\ \A i \in 1..Len(inv.trace) :
            inv.trace[i].kind = "play" =>
              /\ inv.trace[i].delay >= 1
              /\ inv.trace[i].letter \in 65..90 =>
                   /\ FART_DURATIONS[inv.trace[i].letter] >= 1 =>
                        inv.trace[i].delay = FART_DURATIONS[inv.trace[i].letter]
                   /\ FART_DURATIONS[inv.trace[i].letter] = 0 => inv.trace[i].delay = 1
              /\ inv.trace[i].letter \notin 65..90 => inv.trace[i].delay = 1
       /\ \A t \in paceTimersOf(k) :
            /\ timers[t].delay = inv.trace[Len(inv.trace)].delay
            /\ timers[t].rem + inv.since = timers[t].delay

\* a code unit outside the table has been started and its timer of one
\* second is running
C10_Witness ==
  /\ Len(invs) = 1
  /\ invs[1].letters = <<49>>
  /\ Len(invs[1].trace) = 1
  /\ invs[1].trace[1].kind = "play"
  /\ invs[1].trace[1].delay = 1
  /\ paceTimersOf(1) # {}

\* C11: a tick made while a loop is live sets the rate of that loop to 2.5
\* when shift is held on the tick and to 1.0 when it is not, whatever the
\* rate was before the tick; the only tick after which the rate cannot be
\* read is the one that interrupts, which releases the loop
C11_RateFollowsShift ==
  [][\A p \in Players, sh \in BOOLEAN, sp \in BOOLEAN :
       (fartSound # 0 /\ onTickWithPlayerInput(p, sh, sp)) =>
          IF fartSound' # 0
            THEN /\ fartSound' = fartSound
                 /\ audios'[fartSound].playing
                 /\ audios'[fartSound].rate = IF sh THEN 25 ELSE 10
            ELSE sp /\ oneShots' = oneShots + 1]_vars

\* a tick with shift held has sped the live loop up
C11_Witness == fartSound # 0 /\ audios[fartSound].rate = 25

\* C12: a /fartstep in Off creates one loop and leaves no timer, and a
\* /fartstep in the state that leaves (a live loop, nothing pending) pauses
\* that very loop, empties fartSound, creates nothing and ends in Off: two
\* toggles in a row from Off end in Off with no loop playing
C12_TwoTogglesReturnToOff ==
  [][\A p \in Players :
       fartstep(p) =>
          /\ ctlState = "Off" =>
               /\ fartSound' = Len(audios) + 1
               /\ liveLoops' = {fartSound'}
               /\ resumeTimers' = {}
          /\ (fartSound # 0 /\ resumeTimers = {}) =>
               /\ ctlState' = "Off"
               /\ fartSound' = 0
               /\ ~audios'[fartSound].playing
               /\ liveLoops' = {}
               /\ Len(audios') = Len(audios)]_vars

\* Off again after a toggle-on and a toggle-off with no interrupt between:
\* the one loop ever created is paused
C12_Witness ==
  /\ lastToggle.did = "off"
  /\ ctlState = "Off"
  /\ oneShots = 0
  /\ Len(audios) = 1
  /\ ~audios[1].playing

\* C13: the resume callback runs only when its one second has elapsed, as
\* a step of its own: the tick that interrupts creates no loop and leaves
\* its timer pending with the whole delay to run.  When the callback runs
\* it clears the spaceInterruptActive of the tick callback that set it,
\* and if the player has an entity it leaves a playing loop in fartSound
\* under a handle that did not exist before (so not the released one)
C13_ResumeAfterDelay ==
  [][/\ \A t \in resumeTimers :
          (ResumeTimeout /\ fireable(t)) =>
             /\ timers[t].rem = 0
             /\ Cardinality(resumeTimers') = Cardinality(resumeTimers) - 1
             /\ timers[t].cur => ~spaceInterruptActive'[timers[t].who]
             /\ joined[timers[t].who] =>
                  /\ ctlState' = "Looping"
                  /\ fartSound' \notin 1..Len(audios)
                  /\ liveLoops' = {fartSound'}
     /\ \A p \in Players, sh \in BOOLEAN, sp \in BOOLEAN :
          (oneShots' # oneShots /\ onTickWithPlayerInput(p, sh, sp)) =>
             /\ fartSound' = 0
             /\ Len(audios') = Len(audios)
             /\ Len(timers') = Len(timers) + 1
             /\ timers'[Len(timers')] = resumeTimer(p)
             /\ timers'[Len(timers')].rem > 0]_vars

\* one interrupt of the first loop has been resumed: a second loop plays,
\* nothing is pending and no flag is left set
C13_Witness ==
  /\ oneShots = 1
  /\ timers = <<>>
  /\ Len(audios) = 2
  /\ fartSound = 2
  /\ audios[2].playing
  /\ \A p \in Players : ~spaceInterruptActive[p]

\* C14: a /fartstep in Off by a player without an entity changes nothing:
\* no Audio is created, fartSound stays null, no timer is set and no flag
\* changes, so the state is Off afterwards
C14_NoEntityToggleIsNoOp ==
  [][\A p \in Players :
       (fartstepCommand(p) /\ ~joined[p] /\ ctlState = "Off") =>
          /\ ctlState' = "Off"
          /\ UNCHANGED <<build, invs, timers, fartSound, audios, oneShots,
                         joined, lastSpace, spaceInterruptActive>>]_vars

\* the latest /fartstep came from a player without an entity and found
\* the controller Off
C14_Witness ==
  /\ lastToggle.did = "noop"
  /\ ~joined[lastToggle.by]
  /\ ctlState = "Off"

\* the invocations a step changes, time passing aside
changedInvs == {j \in 1..Len(invs) : invs'[j] # invs[j]}

\* C15: while another invocation is in flight, a step of the scheduler
\* other than the passing of time changes at most the one invocation it
\* belongs to and leaves the timers of the others pending, and an
\* invocation that ends has started every letter of its own normalized
\* input, in order, at its own volume and pace, and has emitted its own
\* completion message once
C15_ConcurrentInvocations ==
  [][\A k \in 1..Len(invs') :
       (/\ k > Len(invs) \/ ~invs[k].done
        /\ \E j \in 1..Len(invs) : j # k /\ ~invs[j].done) =>
          /\ (Speak \/ PacingTimeout) =>
               /\ changedInvs \subseteq {k} \/ invs'[k] = invs[k]
               /\ Len(invs') > Len(invs) => changedInvs = {}
               /\ \A j \in 1..Len(invs) :
                    (j # k /\ invs'[j] = invs[j]) =>
                       \A t \in 1..Len(timers) :
                         (timers[t].kind = "pace" /\ timers[t].who = j) =>
                            \E u \in 1..Len(timers') : timers'[u] = timers[t]
          /\ invs'[k].done =>
               LET inv == invs'[k]
                   ps == plays(inv)
               IN /\ lettersOf(ps) = Normalized(inv.raw)
                  /\ \A i \in 1..Len(ps) : ps[i].vol = inv.vol
                  /\ \A i \in 2..Len(ps) : ps[i].gap >= Pacing(ps[i - 1].letter)
                  /\ inv.letters # <<>> =>
                       completions(inv) = <<completeText(inv.cmd, inv.letters)>>]_vars

\* C16: fartSound is one slot for all players: a /fartstep typed by a
\* player other than the one the live loop belongs to pauses that loop and
\* empties the slot, creates no loop for the typing player, and with no
\* resume pending the controller is Off
C16_OtherPlayerTogglesOff ==
  [][\A b \in Players :
       (fartSound # 0 /\ audios[fartSound].owner # b /\ fartstep(b)) =>
          /\ fartSound' = 0
          /\ ~audios'[fartSound].playing
          /\ liveLoops' = {}
          /\ Len(audios') = Len(audios)
          /\ resumeTimers = {} => ctlState' = "Off"]_vars

\* the one loop ever created was switched on by one player and then
\* switched off by the /fartstep of another
C16_Witness ==
  /\ lastToggle.did = "off"
  /\ lastToggle.owner # lastToggle.by
  /\ ctlState = "Off"
  /\ Len(audios) = 1
  /\ oneShots = 0

\* a resume timer set by the current tick callback of p has not fired yet
pendingOf(p) ==
  \E t \in resumeTimers : timers[t].who = p /\ timers[t].cur

\* C17: a tick of player p interrupts (pauses the loop, starts the
\* one-shot, schedules a resume) exactly when a loop is live, space is
\* down on this tick, space was not down on p's previous tick, and no
\* interrupt of p's tick callback is pending; every tick, interrupting or
\* not and with or without a loop, records its space value as the previous
\* one, so a tick that finds space still down never interrupts
C17_InterruptGuard ==
  [][\A p \in Players, sh \in BOOLEAN, sp \in BOOLEAN :
       onTickWithPlayerInput(p, sh, sp) =>
          /\ lastSpace'[p] = sp
          /\ oneShots' # oneShots <=>
               (fartSound # 0 /\ sp /\ ~lastSpace[p] /\ ~pendingOf(p))
          /\ oneShots' # oneShots =>
               /\ ~audios'[fartSound].playing
               /\ fartSound' = 0
               /\ pendingOf(p)'
          /\ oneShots' = oneShots => UNCHANGED <<fartSound, timers>>]_vars

\* space has stayed down over the resume of the one interrupt it caused:
\* the second loop is live, and a tick with shift has run on it without
\* interrupting it
C17_Witness ==
  \E p \in Players :
    /\ joined[p] /\ lastSpace[p]
    /\ \A q \in Players \ {p} : ~joined[q]
    /\ oneShots = 1
    /\ timers = <<>>
    /\ Len(audios) = 2
    /\ fartSound = 2
    /\ audios[2].rate = 25

\* ------------------------------------------- scheduler and controller
timersOfKind(ts, kind) == SelectSeq(ts, LAMBDA t : t.kind = kind)

\* what a speak invocation has done so far, the clock aside
progress(is) == [k \in 1..Len(is) |-> [is[k] EXCEPT !.since = 0]]

\* C18: a step that moves a speak invocation on (the command with its hint
\* or first letter, a pacing timer with the next letter or the completion
\* message) leaves fartSound, the Audio objects, the one-shot count,
\* lastSpace, spaceInterruptActive and the pending resume timers as they
\* are, and a step that changes any of those (a toggle, a tick, an
\* interrupt, a resume) leaves every invocation and every pending pacing
\* timer as it is
C18_SchedulerControllerDisjoint ==
  [][/\ progress(invs') # progress(invs) =>
          /\ UNCHANGED <<fartSound, audios, oneShots, joined, lastSpace,
                         spaceInterruptActive>>
          /\ timersOfKind(timers', "resume") = timersOfKind(timers, "resume")
     /\ (\/ <<fartSound, audios, oneShots, lastSpace, spaceInterruptActive>>' #
             <<fartSound, audios, oneShots, lastSpace, spaceInterruptActive>>
         \/ Len(timersOfKind(timers', "resume")) # Len(timersOfKind(timers, "resume"))) =>
          /\ UNCHANGED invs
          /\ timersOfKind(timers', "pace") = timersOfKind(timers, "pace")]_vars

\* a speak sequence is waiting between two letters while the loop is
\* interrupted: a pacing timer and a resume timer are pending together
C18_Witness ==
  /\ Len(invs) = 1
  /\ ~invs[1].done
  /\ timersOfKind(timers, "pace") # <<>>
  /\ timersOfKind(timers, "resume") # <<>>
  /\ fartSound = 0
  /\ oneShots >= 1

\* -------------------------------------------- controller, across steps
\* C19: while the latest /fartstep is one that switched the loop off, no
\* loop is playing and fartSound is null: nothing but the next /fartstep
\* brings a loop back
C19_OffUntilNextToggle ==
  lastToggle.did = "off" => (fartSound = 0 /\ liveLoops = {})

\* C20: at most one resume callback is scheduled and not yet fired,
\* whichever players' ticks set them
C20_OnePendingInterrupt == Cardinality(resumeTimers) <= 1

====
